---- MODULE Spec2Model ----
(***************************************************************************)
(* Model of trunk/src/libasf_sar/deskew_dem.c: the line-sequential driver  *)
(* deskew_dem and the routines it calls (SR2GR, dem_gr2sr, dem_sr2gr,      *)
(* geo_compensate, radio_compensate, mask_float_line, shift_gr).           *)
(*                                                                         *)
(* Numbers.  The C code works on float/double.  Here every sample          *)
(* position is a fixed-point integer counting 1/q of a pixel (q is a field *)
(* of the geometry record), heights are integers, amplitudes are integers. *)
(* (int)x is Trunc, floor(x) is Floor, ceil(x) is Ceil on those numbers.   *)
(* An output sample is a record [v, k]: v the amplitude produced by the    *)
(* resampling, k the sequence of radiometric scalings applied to it since  *)
(* (each <<form, x, dx, dy>>), so that a scaled sample differs from an     *)
(* unscaled one and the formula that scaled it stays visible.              *)
(***************************************************************************)
EXTENDS Integers, Sequences, FiniteSets, TLC

(***************************************************************************)
(* Bounds of the model                                                     *)
(***************************************************************************)
MaxLines == 2
MaxBands == 2

(***************************************************************************)
(* Sentinels and mask classes (asf_sar.h)                                  *)
(***************************************************************************)
badDEMht == -9999
NO_DEM_DATA == -4321
LEAVE_MASK == -1

MASK_NORMAL == 1
MASK_USER_MASK == 2
MASK_SHADOW == 3
MASK_LAYOVER == 4
MASK_INVALID_DATA == 5

maxBreakLen == 5
num_hits_required_for_layover == 2

(***************************************************************************)
(* C conversions on fixed-point numbers n/q                                *)
(***************************************************************************)
Floor(n, q) == n \div q
Ceil(n, q) == -((-n) \div q)
Trunc(n, q) == IF n >= 0 THEN n \div q ELSE -((-n) \div q)

eq(a, b) == a = b

Const(n, v) == [i \in 1..n |-> v]

(* C arrays are 0-based: At(a, i) is a[i].  An index outside the array is  *)
(* a read of foreign memory, which yields the value g chosen by the caller.*)
InBounds(a, i) == i >= 0 /\ i < Len(a)
At(a, i) == a[i + 1]
Rd(a, i, g) == IF InBounds(a, i) THEN a[i + 1] ELSE g
Put(a, i, v) == [a EXCEPT ![i + 1] = v]

(***************************************************************************)
(* struct deskew_dem_data after calc_ranges.  calc_ranges computes the     *)
(* tables with acos/sqrt from the orbit; the model draws the result from   *)
(* this set of tables.  As in calc_ranges, slantGR and groundSR run from 0 *)
(* to ns-1 and are increasing and inverse to each other, heightShiftGR is  *)
(* positive and heightShiftSR negative.  lookBase/lookGain stand for the   *)
(* look value geo_compensate derives from meta_get_slant and               *)
(* meta_get_earth_radius: it grows with ground range and with height.      *)
(***************************************************************************)
Geometries ==
  { [ q |-> 4, numSamples |-> 6,
      slantGR       |-> <<0, 3, 7, 11, 15, 20>>,
      groundSR      |-> <<0, 5, 9, 13, 17, 20>>,
      heightShiftGR |-> <<2, 2, 2, 2, 2, 2>>,
      heightShiftSR |-> <<-2, -2, -2, -2, -2, -2>>,
      sinIncidAng   |-> <<3, 3, 4, 4, 5, 5>>,
      cosIncidAng   |-> <<6, 6, 5, 5, 4, 4>>,
      grPixelSize   |-> 2,
      lookBase      |-> <<0, 4, 8, 12, 16, 20>>,
      lookGain      |-> 3 ] }

(* SR2GR, deskew_dem.c:112.  srX is fixed-point, the result too. *)
SR2GR(d, srX, height, g) ==
  LET q   == d.q
      sl0 == srX - height * Rd(d.heightShiftSR, Trunc(srX, q), g)
      sl1 == IF sl0 < 0 THEN 0 ELSE sl0
      sl2 == IF sl1 >= (d.numSamples - 1) * q THEN (d.numSamples - 2) * q ELSE sl1
      ix  == Trunc(sl2, q)
      dx  == sl2 - ix * q
  IN  At(d.groundSR, ix) + (dx * (At(d.groundSR, ix + 1) - At(d.groundSR, ix))) \div q

(* dem_gr2sr, deskew_dem.c:125 *)
dem_gr2sr(d, grX, height, g) ==
  LET q   == d.q
      gl0 == grX - height * Rd(d.heightShiftGR, Trunc(grX, q), g)
      gl1 == IF gl0 < 0 THEN 0 ELSE gl0
      gl2 == IF gl1 >= (d.numSamples - 1) * q THEN (d.numSamples - 2) * q ELSE gl1
      ix  == Trunc(gl2, q)
      dx  == gl2 - ix * q
  IN  At(d.slantGR, ix) + (dx * (At(d.slantGR, ix + 1) - At(d.slantGR, ix))) \div q

(***************************************************************************)
(* dem_sr2gr, deskew_dem.c:138.  The loop state is [out, lastOutX,         *)
(* lastOutValue]; sr2gr_step is one iteration of the for(inX) loop.        *)
(***************************************************************************)
FillRange(buf, lo, hi, F(_)) ==
  [i \in 1..Len(buf) |-> IF lo <= i - 1 /\ i - 1 <= hi THEN F(i - 1) ELSE buf[i]]

(* sr2gr_step testing only the current height for NO_DEM_DATA *)
sr2gr_step_cur(d, inBuf, ns, fill_holes, inX, st) ==
  LET height == At(inBuf, inX)
      outX   == Trunc(SR2GR(d, inX * d.q, height, 0), d.q)
      lastX  == st.lastOutX
      lastV  == st.lastOutValue
      Interp(x) == lastV + ((height - lastV) * (x - lastX)) \div (outX - lastX)
      NoData(x) == NO_DEM_DATA
  IN  IF (height > badDEMht) /\ (outX >= 0) /\ (outX < ns)
      THEN [ out |-> IF eq(height, NO_DEM_DATA)
                     THEN FillRange(st.out, lastX + 1, outX, NoData)
                     ELSE IF lastV # badDEMht /\ (fill_holes \/ outX - lastX < maxBreakLen)
                     THEN FillRange(st.out, lastX + 1, outX, Interp)
                     ELSE st.out,
             lastOutX |-> outX,
             lastOutValue |-> height ]
      ELSE st

sr2gr_step(d, inBuf, ns, fill_holes, inX, st) ==
  LET height == At(inBuf, inX)
      outX   == Trunc(SR2GR(d, inX * d.q, height, 0), d.q)
      lastX  == st.lastOutX
      lastV  == st.lastOutValue
      Interp(x) == lastV + ((height - lastV) * (x - lastX)) \div (outX - lastX)
      NoData(x) == NO_DEM_DATA
  IN  IF (height > badDEMht) /\ (outX >= 0) /\ (outX < ns)
      THEN [ out |-> IF eq(lastV, NO_DEM_DATA) \/ eq(height, NO_DEM_DATA)
                     THEN FillRange(st.out, lastX + 1, outX, NoData)
                     ELSE IF lastV # badDEMht /\ (fill_holes \/ outX - lastX < maxBreakLen)
                     THEN FillRange(st.out, lastX + 1, outX, Interp)
                     ELSE st.out,
             lastOutX |-> outX,
             lastOutValue |-> height ]
      ELSE st

RECURSIVE sr2gr_loop(_, _, _, _, _, _)
sr2gr_loop(d, inBuf, ns, fill_holes, inX, st) ==
  IF inX >= ns THEN st.out
  ELSE sr2gr_loop(d, inBuf, ns, fill_holes, inX + 1,
                  sr2gr_step(d, inBuf, ns, fill_holes, inX, st))

(* sr2gr_begin with the output line cleared to 0 *)
sr2gr_begin_zero(ns) ==
  [out |-> Const(ns, 0), lastOutX |-> -1, lastOutValue |-> badDEMht]

(* the loop state before the first iteration, deskew_dem.c:141-146 *)
sr2gr_begin(ns) ==
  [out |-> Const(ns, badDEMht), lastOutX |-> -1, lastOutValue |-> badDEMht]

dem_sr2gr(d, inBuf, ns, fill_holes) ==
  sr2gr_loop(d, inBuf, ns, fill_holes, 0, sr2gr_begin(ns))

(* shift_gr, deskew_dem.c:645 *)
shift_gr(d, in) ==
  LET ns == d.numSamples
      q  == d.q
  IN  [i \in 1..ns |->
         LET x    == i - 1
             newX == Floor(At(d.slantGR, x), q)
             frac == At(d.slantGR, x) - newX * q
         IN  IF newX < 0 THEN At(in, 0)
             ELSE IF newX > ns - 2 THEN At(in, ns - 1)
             ELSE (At(in, newX) * (q - frac) + At(in, newX + 1) * frac) \div q]

(***************************************************************************)
(* geo_compensate, deskew_dem.c:269.  A call is a record gs holding the    *)
(* arguments (d, grDEM, in, doInterp, hasMask, line), the locals, out[],   *)
(* mask[], sr_hits[] and the three global counters; gs.phase/gs.grX say    *)
(* where the call stands.  geo_begin is the code before the first loop,    *)
(* geo_sweep / geo_close / geo_edge are one iteration of the three loops,  *)
(* geo_finish the invalid-data marking before the return.                  *)
(***************************************************************************)
BadHeightGeo(h) == IF h < -900 THEN badDEMht ELSE h

(* the look value of deskew_dem.c:365-377 for pixel grX at height h *)
cur_look(d, grX, h) == At(d.lookBase, grX) + d.lookGain * h

(* -2, below every look value *)
LookFloor(d) == -1000000

geo_begin(d, grDEM, in, out, ns, doInterp, mask, hasMask, line, g, nl, nsh) ==
  [ phase |-> "sweep", grX |-> 0,
    d |-> d, grDEM |-> grDEM, in |-> in, ns |-> ns, doInterp |-> doInterp,
    hasMask |-> hasMask, line |-> line, g |-> g,
    out |-> out,
    mask |-> IF hasMask
             THEN [i \in 1..ns |->
                     IF mask[i] # MASK_USER_MASK /\ mask[i] # MASK_INVALID_DATA
                     THEN MASK_NORMAL ELSE mask[i]]
             ELSE mask,
    sr_hits |-> IF hasMask THEN Const(ns * num_hits_required_for_layover, -1) ELSE <<>>,
    valid_data_yet |-> FALSE,
    max_height |-> At(grDEM, 0),
    last_good_height |-> 0,
    max_valid_srX |-> -(d.q),
    max_valid_srX_height |-> 0,
    min_valid_srX |-> (ns - 1) * d.q,
    min_valid_srX_height |-> 0,
    biggest_look |-> LookFloor(d),
    n_layover |-> nl, n_shadow |-> nsh ]

(* deskew_dem.c:335-361: record the hit of grX on slant-range pixel x, *)
(* and on a full table mark the recorded origins and grX as layover    *)
MarkLayover_any(mk, i) ==
  [mask |-> Put(mk.mask, i, MASK_LAYOVER), n |-> mk.n + 1]

MarkLayover(mk, i) ==
  IF At(mk.mask, i) = MASK_NORMAL
  THEN [mask |-> Put(mk.mask, i, MASK_LAYOVER), n |-> mk.n + 1]
  ELSE mk

layover_hit(gs, x, grX) ==
  LET ns == gs.ns
      h0 == At(gs.sr_hits, x)
      h1 == At(gs.sr_hits, ns + x)
  IN  IF h0 = -1 THEN [gs EXCEPT !.sr_hits = Put(@, x, grX)]
      ELSE IF h1 = -1 THEN [gs EXCEPT !.sr_hits = Put(@, ns + x, grX)]
      ELSE LET m0 == MarkLayover([mask |-> gs.mask, n |-> gs.n_layover], h0)
               m1 == MarkLayover(m0, h1)
               m2 == MarkLayover(m1, grX)
           IN  [gs EXCEPT !.mask = m2.mask, !.n_layover = m2.n]

(* shadow_check marking without the test of deskew_dem.c:385 *)
shadow_check_any(gs, grX) ==
  LET look == cur_look(gs.d, grX, At(gs.grDEM, grX))
  IN  IF look >= gs.biggest_look
      THEN [gs EXCEPT !.biggest_look = look]
      ELSE [gs EXCEPT !.mask = Put(@, grX, MASK_SHADOW), !.n_shadow = @ + 1]

(* deskew_dem.c:363-389 *)
shadow_check(gs, grX) ==
  LET look == cur_look(gs.d, grX, At(gs.grDEM, grX))
  IN  IF look >= gs.biggest_look
      THEN [gs EXCEPT !.biggest_look = look]
      ELSE IF At(gs.mask, grX) = MASK_NORMAL
      THEN [gs EXCEPT !.mask = Put(@, grX, MASK_SHADOW), !.n_shadow = @ + 1]
      ELSE gs

(* (int)(srX+.5) *)
RoundIdx(srX, q) == Trunc(2 * srX + q, 2 * q)

(* after_sweep with the hole-closing pass starting at pixel 0 *)
after_sweep_from0(gs) ==
  IF gs.grX + 1 < gs.ns THEN [gs EXCEPT !.grX = @ + 1]
  ELSE IF gs.hasMask /\ 0 < gs.ns - 2 THEN [gs EXCEPT !.phase = "close", !.grX = 0]
  ELSE [gs EXCEPT !.phase = "edge", !.grX = gs.ns - 1, !.last_good_height = 0]

(* where the call goes after iteration grX of the first loop *)
after_sweep(gs) ==
  IF gs.grX + 1 < gs.ns THEN [gs EXCEPT !.grX = @ + 1]
  ELSE IF gs.hasMask /\ 2 < gs.ns - 2 THEN [gs EXCEPT !.phase = "close", !.grX = 2]
  ELSE [gs EXCEPT !.phase = "edge", !.grX = gs.ns - 1, !.last_good_height = 0]

(* height, srX and x of the pixel the first loop is at *)
sweep_height(gs) == BadHeightGeo(At(gs.grDEM, gs.grX))
sweep_srX(gs) ==
  IF sweep_height(gs) # badDEMht
  THEN dem_gr2sr(gs.d, gs.grX * gs.d.q, sweep_height(gs), gs.g)
  ELSE dem_gr2sr(gs.d, gs.grX * gs.d.q, gs.last_good_height, gs.g)
sweep_in_swath(gs) ==
  sweep_height(gs) # badDEMht
  /\ sweep_srX(gs) >= gs.d.q /\ sweep_srX(gs) < (gs.ns - 1) * gs.d.q

(* one iteration of for (grX=0;grX<ns;grX++), deskew_dem.c:305-427 *)
geo_sweep(gs) ==
  LET d      == gs.d
      q      == d.q
      ns     == gs.ns
      grX    == gs.grX
      height == sweep_height(gs)
      srX    == sweep_srX(gs)
  IN  IF height # badDEMht
      THEN LET g1 == [gs EXCEPT !.max_height = IF height > @ THEN height ELSE @,
                                !.last_good_height = height]
           IN  IF srX >= q /\ srX < (ns - 1) * q
               THEN LET x  == Floor(srX, q)
                        dx == srX - x * q
                        v  == IF gs.doInterp
                              THEN ((q - dx) * At(gs.in, x) + dx * At(gs.in, x + 1)) \div q
                              ELSE IF 2 * dx <= q THEN At(gs.in, x) ELSE At(gs.in, x + 1)
                        g2 == [g1 EXCEPT !.out = Put(@, grX, v),
                                         !.valid_data_yet = TRUE,
                                         !.max_valid_srX = IF srX > @ THEN srX ELSE @,
                                         !.max_valid_srX_height =
                                              IF srX > g1.max_valid_srX THEN height ELSE @]
                    IN  IF gs.hasMask
                        THEN after_sweep(shadow_check(layover_hit(g2, x, grX), grX))
                        ELSE after_sweep(g2)
               ELSE after_sweep([g1 EXCEPT !.out = Put(@, grX, 0)])
      ELSE IF gs.valid_data_yet /\ srX >= 0 /\ srX < (ns - 1) * q
           THEN LET v == At(gs.in, RoundIdx(srX, q))
                IN  after_sweep([gs EXCEPT !.out = Put(@, grX, v),
                                   !.max_valid_srX =
                                        IF v # 0 /\ srX > @ THEN srX ELSE @,
                                   !.max_valid_srX_height =
                                        IF v # 0 /\ srX > gs.max_valid_srX
                                        THEN gs.last_good_height ELSE @])
           ELSE after_sweep([gs EXCEPT !.out = Put(@, grX, 0)])

(* one iteration of for (grX=2;grX<ns-2;grX++), deskew_dem.c:431-442 *)
geo_close(gs) ==
  LET grX == gs.grX
      m   == gs.mask
      g1  == IF At(m, grX) = MASK_NORMAL
             THEN IF At(m, grX - 1) = MASK_LAYOVER /\ At(m, grX + 1) = MASK_LAYOVER
                  THEN [gs EXCEPT !.mask = Put(@, grX, MASK_LAYOVER),
                                  !.n_layover = @ + 1]
                  ELSE IF At(m, grX - 1) = MASK_SHADOW /\ At(m, grX + 1) = MASK_SHADOW
                  THEN [gs EXCEPT !.mask = Put(@, grX, MASK_SHADOW),
                                  !.n_shadow = @ + 1]
                  ELSE gs
             ELSE gs
  IN  IF grX + 1 < gs.ns - 2 THEN [g1 EXCEPT !.grX = @ + 1]
      ELSE [g1 EXCEPT !.phase = "edge", !.grX = gs.ns - 1, !.last_good_height = 0]

(* geo_edge copying a pixel into every zero output left of the valid data *)
geo_edge_any(gs) ==
  LET d      == gs.d
      q      == d.q
      grX    == gs.grX
      height == At(gs.grDEM, grX)
      good   == height > -900 /\ height # badDEMht
      lgh    == IF good THEN height ELSE gs.last_good_height
      srX    == dem_gr2sr(d, grX * q, lgh, gs.g)
      lower  == srX >= 0 /\ srX < gs.min_valid_srX
      g1     == [gs EXCEPT !.last_good_height = lgh,
                           !.min_valid_srX = IF lower THEN srX ELSE @,
                           !.min_valid_srX_height = IF lower THEN lgh ELSE @,
                           !.out = IF lower /\ At(gs.out, grX) = 0
                                   THEN Put(@, grX, At(gs.in, RoundIdx(srX, q)))
                                   ELSE @]
  IN  IF grX - 1 >= 0 THEN [g1 EXCEPT !.grX = @ - 1]
      ELSE [g1 EXCEPT !.phase = "finish"]

(* one iteration of for (grX=ns-1;grX>=0;grX--), deskew_dem.c:453-473 *)
geo_edge(gs) ==
  LET d      == gs.d
      q      == d.q
      grX    == gs.grX
      height == At(gs.grDEM, grX)
      good   == height > -900 /\ height # badDEMht
      lgh    == IF good THEN height ELSE gs.last_good_height
      srX    == dem_gr2sr(d, grX * q, lgh, gs.g)
      lower  == srX >= 0 /\ srX < gs.min_valid_srX
      g1     == [gs EXCEPT !.last_good_height = lgh,
                           !.min_valid_srX = IF lower THEN srX ELSE @,
                           !.min_valid_srX_height = IF lower THEN lgh ELSE @,
                           !.out = IF ~good /\ lower /\ At(gs.out, grX) = 0
                                   THEN Put(@, grX, At(gs.in, RoundIdx(srX, q)))
                                   ELSE @]
  IN  IF grX - 1 >= 0 THEN [g1 EXCEPT !.grX = @ - 1]
      ELSE [g1 EXCEPT !.phase = "finish"]

(* deskew_dem.c:475-489 *)
max_valid_grX(gs) ==
  Floor(SR2GR(gs.d, gs.max_valid_srX, gs.max_valid_srX_height, gs.g), gs.d.q)
min_valid_grX(gs) ==
  Ceil(SR2GR(gs.d, gs.min_valid_srX, gs.min_valid_srX_height, gs.g), gs.d.q)

geo_finish(gs) ==
  LET ns == gs.ns
      hi == max_valid_grX(gs)
      lo == min_valid_grX(gs)
      m1 == IF hi < ns - 1 /\ hi >= 0
            THEN [i \in 1..ns |-> IF i - 1 >= hi THEN MASK_INVALID_DATA ELSE gs.mask[i]]
            ELSE gs.mask
      m2 == IF lo < ns - 1 /\ lo >= 0
            THEN [i \in 1..ns |-> IF i - 1 <= lo /\ gs.out[i] = 0
                                  THEN MASK_INVALID_DATA ELSE m1[i]]
            ELSE m1
  IN  IF gs.hasMask
      THEN [gs EXCEPT !.mask = m2, !.sr_hits = <<>>, !.phase = "ret"]
      ELSE [gs EXCEPT !.phase = "ret"]

geo_next(gs) ==
  CASE gs.phase = "sweep"  -> geo_sweep(gs)
    [] gs.phase = "close"  -> geo_close(gs)
    [] gs.phase = "edge"   -> geo_edge(gs)
    [] gs.phase = "finish" -> geo_finish(gs)

RECURSIVE geo_run(_)
geo_run(gs) == IF gs.phase = "ret" THEN gs ELSE geo_run(geo_next(gs))

geo_compensate(d, grDEM, in, out, ns, doInterp, mask, hasMask, line, g, nl, nsh) ==
  geo_run(geo_begin(d, grDEM, in, out, ns, doInterp, mask, hasMask, line, g, nl, nsh))

(***************************************************************************)
(* Output samples: [v |-> amplitude, k |-> scalings applied]               *)
(***************************************************************************)
Sample(v) == [v |-> v, k |-> <<>>]
Wrap(line) == [i \in 1..Len(line) |-> Sample(line[i])]
Vals(line) == [i \in 1..Len(line) |-> line[i].v]

(* inout[x] *= factor(form, x, dx, dy).  A zero amplitude stays zero; the  *)
(* factor of form 5, sqrt(1-cosAng^2)/sinIncidAng[x], is 1 where dx = 0.   *)
Scale(p, form, x, dx, dy) ==
  IF p.v = 0 \/ (form = 5 /\ dx = 0) THEN p
  ELSE [p EXCEPT !.k = Append(@, <<form, x, dx, dy>>)]

(* bad_dem_height, deskew_dem.c:498 *)
bad_dem_height(height) == height < -900 \/ height = badDEMht

(* radio_compensate without the override of deskew_dem.c:541 *)
radio_form_selected(form) == form

(* "form=5;", deskew_dem.c:541 *)
radio_form(form) == 5

(* radio_pixel correcting user-masked pixels like the others *)
radio_pixel_masked(d, grDEM, grDEMprev, form, mask, x, r) ==
  LET dx     == At(grDEM, x) - At(grDEM, x - 1)
      dy     == At(grDEMprev, x) - At(grDEM, x)
      cosNum == dx * At(d.sinIncidAng, x) + At(d.cosIncidAng, x) * d.grPixelSize
      scaled == [r EXCEPT !.inout = Put(@, x, Scale(At(@, x), form, x, dx, dy))]
  IN  IF r.err # "" THEN r
      ELSE IF bad_dem_height(At(grDEM, x)) \/ bad_dem_height(At(grDEMprev, x))
              \/ bad_dem_height(At(grDEM, x - 1)) THEN r
      ELSE IF cosNum >= 0
      THEN IF form = 5 THEN scaled
           ELSE IF form \in {1, 2, 3, 4, 6}
           THEN [scaled EXCEPT !.err = "untested radiometric terrain correction formula"]
           ELSE [r EXCEPT !.err = "Bad radiometric correction formula"]
      ELSE r

(* one iteration of for (x=1;x<ns;x++) of radio_compensate,                *)
(* deskew_dem.c:544-642.  r is [inout, err]; asfPrintError (bad_rtc, the   *)
(* default case) ends the process, so nothing runs once r.err is set.      *)
radio_pixel(d, grDEM, grDEMprev, form, mask, x, r) ==
  LET dx     == At(grDEM, x) - At(grDEM, x - 1)
      dy     == At(grDEMprev, x) - At(grDEM, x)
      cosNum == dx * At(d.sinIncidAng, x) + At(d.cosIncidAng, x) * d.grPixelSize
      scaled == [r EXCEPT !.inout = Put(@, x, Scale(At(@, x), form, x, dx, dy))]
  IN  IF r.err # "" THEN r
      ELSE IF At(mask, x) = MASK_USER_MASK THEN r
      ELSE IF bad_dem_height(At(grDEM, x)) \/ bad_dem_height(At(grDEMprev, x))
              \/ bad_dem_height(At(grDEM, x - 1)) THEN r
      ELSE IF cosNum >= 0
      THEN IF form = 5 THEN scaled
           ELSE IF form \in {1, 2, 3, 4, 6}
           THEN [scaled EXCEPT !.err = "untested radiometric terrain correction formula"]
           ELSE [r EXCEPT !.err = "Bad radiometric correction formula"]
      ELSE r

RECURSIVE radio_loop(_, _, _, _, _, _, _, _)
radio_loop(d, grDEM, grDEMprev, ns, form, mask, x, r) ==
  IF x >= ns THEN r
  ELSE radio_loop(d, grDEM, grDEMprev, ns, form, mask, x + 1,
                  radio_pixel(d, grDEM, grDEMprev, form, mask, x, r))

(* radio_compensate, deskew_dem.c:503 *)
radio_compensate(d, grDEM, grDEMprev, inout, ns, line, form, mask) ==
  IF form = 0 THEN [inout |-> inout, err |-> ""]
  ELSE radio_loop(d, grDEM, grDEMprev, ns, radio_form(form), mask, 1,
                  [inout |-> inout, err |-> ""])

(* mask_float_line leaving the count of user-masked pixels to its caller *)
mask_float_line_nocount(ns, fill_value, in, inMask, grDEM, interp, nu) ==
  [ line |-> [i \in 1..ns |->
                 LET a == IF inMask[i] = MASK_USER_MASK /\ fill_value # LEAVE_MASK
                          THEN Sample(fill_value) ELSE in[i]
                     c == IF eq(grDEM[i], NO_DEM_DATA) THEN Sample(0) ELSE a
                 IN  IF interp /\ (inMask[i] = MASK_LAYOVER \/ inMask[i] = MASK_SHADOW)
                     THEN Sample(0) ELSE c],
    n_user |-> nu ]

(* mask_float_line, deskew_dem.c:241.  Returns the line and n_user. *)
mask_float_line(ns, fill_value, in, inMask, grDEM, interp, nu) ==
  [ line |-> [i \in 1..ns |->
                 LET a == IF inMask[i] = MASK_USER_MASK /\ fill_value # LEAVE_MASK
                          THEN Sample(fill_value) ELSE in[i]
                     c == IF eq(grDEM[i], NO_DEM_DATA) THEN Sample(0) ELSE a
                 IN  IF interp /\ (inMask[i] = MASK_LAYOVER \/ inMask[i] = MASK_SHADOW)
                     THEN Sample(0) ELSE c],
    n_user |-> nu + Cardinality({i \in 1..ns : inMask[i] = MASK_USER_MASK}) ]

(* is_masked (asf_raster): a raw mask value that asks for masking *)
is_masked(v) == v > 0

(* the translation of a raw mask line, deskew_dem.c:871-876 *)
translate_mask(raw) ==
  [i \in 1..Len(raw) |-> IF raw[i] = 2 THEN MASK_INVALID_DATA
                         ELSE IF is_masked(raw[i]) THEN MASK_USER_MASK
                         ELSE raw[i]]

(***************************************************************************)
(* Inputs of a run of deskew_dem                                           *)
(***************************************************************************)
B == badDEMht
N == NO_DEM_DATA

(* lines of the slant-range DEM, of the ground-range DEM, of the SAR bands *)
(* and of the raw mask (0 not masked, 1 masked, 2 invalid)                 *)
DemPool    == << <<0, B, 0, 0, B, 0>>, <<0, 0, 2, 4, 2, 0>>, <<0, 0, N, N, 0, 0>> >>
GroundPool == << <<0, 0, 0, 2, 4, 0>>, <<0, 0, 0, 0, 0, 0>>, <<0, 4, B, 0, 0, 0>> >>
SarPool    == << <<4, 8, 12, 16, 20, 24>>, <<0, 0, 8, 4, 0, 0>> >>
MaskPool   == << <<0, 0, 1, 0, 0, 0>>, <<0, 2, 1, 0, 0, 0>> >>
GarbageLines == { <<0, 0, 0, 0, 0, 0>>, <<9, 0, 9, 9, 0, 9>> }
OobValues  == {-3, 7}

Cyc(pool, i) == pool[(i % Len(pool)) + 1]

Defects == {"none", "demProjected", "sarProjected", "groundSamples", "maskSize"}

Configs ==
  { c \in [ inDemGround : BOOLEAN, inSar : BOOLEAN, inMask : BOOLEAN,
            outMask : BOOLEAN, doRadiometric : {0, 1, 5},
            fill_holes : BOOLEAN, fill_value : {LEAVE_MASK, 0},
            which_gr_dem : {"BACKCONVERTED_GR_DEM", "ORIGINAL_GR_DEM"},
            defect : Defects, numLines : 1..MaxLines, bands : 1..MaxBands,
            demSeed : 0..2, geom : Geometries ] :
      /\ (~c.inSar => c.bands = 1)
      /\ (c.defect = "sarProjected" => c.inSar)
      /\ (c.defect = "groundSamples" => c.inDemGround)
      /\ (c.defect = "maskSize" => c.inSar /\ c.inMask) }

GeoArrays == {"slantGR", "groundSR", "heightShiftSR", "heightShiftGR", "slantRange",
              "slantRangeSqr", "incidAng", "sinIncidAng", "cosIncidAng"}
LineBufs  == {"inSarLine", "outLine", "srDEMline", "grDEMline", "grDEMlast",
              "grDEMconv", "maskLine"}
Files     == {"inDemSlant", "inDemGround", "out", "inSar", "inMask", "outMask"}

VARIABLES
  cfg,          \* the arguments and the input files of the run
  pc,           \* where deskew_dem stands
  y, b,         \* the loop counters of deskew_dem
  d,            \* struct deskew_dem_data (<<>> before calc_ranges)
  buf,          \* the scanline buffers: contents, and which of the two
                \* ground-range buffers grDEMline points at
  heap,         \* per buffer: number of MALLOCs and of FREEs
  files,        \* per file: number of fopenImage and of FCLOSE calls
  cnt,          \* n_layover, n_shadow, n_user
  log,          \* the calls made so far, <<op, y, b>>
  written,      \* the lines put to the output raster
  maskWritten,  \* the lines put to the output mask
  metaWritten,  \* the names meta_write was called for
  stats,        \* number of mask statistics reports
  err,          \* the message of asfPrintError, "" if none
  geo,          \* a geo_compensate call in progress (GeoSpec)
  cvt           \* a dem_sr2gr call in progress (Sr2grSpec)

vars == <<cfg, pc, y, b, d, buf, heap, files, cnt, log, written, maskWritten,
          metaWritten, stats, err, geo, cvt>>

inSarFlag   == cfg.inSar
inMaskFlag  == cfg.inMask
outMaskFlag == cfg.outMask
band_count  == IF cfg.inSar THEN cfg.bands ELSE 1
ns          == d.numSamples

DemLine(line)     == Cyc(DemPool, cfg.demSeed + line)
GroundLine(line)  == Cyc(GroundPool, cfg.demSeed + line)
SarLine(bnd, line) == Cyc(SarPool, line + bnd)
MaskLine(line)    == Cyc(MaskPool, line)

grDEMline == buf.gr[buf.cur]
grDEMlast == buf.gr[3 - buf.cur]
grDEM_for_geo ==
  IF cfg.which_gr_dem = "ORIGINAL_GR_DEM" THEN grDEMline ELSE buf.grDEMconv

Malloc(h, names) == [n \in DOMAIN h |-> IF n \in names THEN [h[n] EXCEPT !.a = @ + 1] ELSE h[n]]
Free(h, names)   == [n \in DOMAIN h |-> IF n \in names THEN [h[n] EXCEPT !.f = @ + 1] ELSE h[n]]
Open(f, names)   == [n \in DOMAIN f |-> IF n \in names THEN [f[n] EXCEPT !.o = @ + 1] ELSE f[n]]
Close(f, names)  == [n \in DOMAIN f |-> IF n \in names THEN [f[n] EXCEPT !.c = @ + 1] ELSE f[n]]

NoGeo == [phase |-> "none"]
NoConv == [inX |-> -1]

Init ==
  /\ cfg \in Configs
  /\ pc = "start"
  /\ y = 0 /\ b = 0
  /\ d = <<>>
  /\ buf = [srDEMline |-> <<>>, gr |-> <<(<<>>), (<<>>)>>, cur |-> 1, grDEMconv |-> <<>>,
            inSarLine |-> <<>>, outLine |-> <<>>, maskLine |-> <<>>]
  /\ heap = [n \in GeoArrays \cup LineBufs |-> [a |-> 0, f |-> 0]]
  /\ files = [n \in Files |-> [o |-> 0, c |-> 0]]
  /\ cnt = [n_layover |-> 0, n_shadow |-> 0, n_user |-> 0]
  /\ log = <<>>
  /\ written = <<>>
  /\ maskWritten = <<>>
  /\ metaWritten = {}
  /\ stats = 0
  /\ err = ""
  /\ geo = NoGeo
  /\ cvt = NoConv

(* asfPrintError: report and end the process *)
Fatal(msg) == pc' = "error" /\ err' = msg

(* deskew_dem.c:692-702 *)
ReadMeta ==
  /\ pc = "start"
  /\ IF cfg.defect = "demProjected"
     THEN Fatal("DEM cannot be map projected")
     ELSE pc' = "sar_meta" /\ err' = err
  /\ UNCHANGED <<cfg, y, b, d, buf, heap, files, cnt, log, written, maskWritten,
                 metaWritten, stats, geo, cvt>>

(* deskew_dem.c:703-716 *)
SarMeta ==
  /\ pc = "sar_meta"
  /\ IF inSarFlag /\ cfg.defect = "sarProjected"
     THEN Fatal("SAR image cannot be map projected")
     ELSE pc' = "ground_check" /\ err' = err
  /\ UNCHANGED <<cfg, y, b, d, buf, heap, files, cnt, log, written, maskWritten,
                 metaWritten, stats, geo, cvt>>

(* deskew_dem.c:718-724 *)
GroundCheck ==
  /\ pc = "ground_check"
  /\ IF cfg.inDemGround /\ cfg.defect = "groundSamples"
     THEN Fatal("Slant/Ground mismatch")
     ELSE pc' = "alloc_geom" /\ err' = err
  /\ UNCHANGED <<cfg, y, b, d, buf, heap, files, cnt, log, written, maskWritten,
                 metaWritten, stats, geo, cvt>>

(* deskew_dem.c:726-745: the nine arrays, calc_ranges *)
AllocGeom ==
  /\ pc = "alloc_geom"
  /\ heap' = Malloc(heap, GeoArrays)
  /\ d' = cfg.geom
  /\ log' = Append(log, <<"calc_ranges", -1, -1>>)
  /\ pc' = "open"
  /\ UNCHANGED <<cfg, y, b, buf, files, cnt, written, maskWritten, metaWritten,
                 stats, err, geo, cvt>>

(* deskew_dem.c:747-757 *)
OpenFiles ==
  /\ pc = "open"
  /\ files' = Open(files, {"inDemSlant", "out"}
                          \cup (IF cfg.inDemGround THEN {"inDemGround"} ELSE {})
                          \cup (IF inSarFlag THEN {"inSar"} ELSE {}))
  /\ pc' = "check_mask"
  /\ UNCHANGED <<cfg, y, b, d, buf, heap, cnt, log, written, maskWritten,
                 metaWritten, stats, err, geo, cvt>>

(* deskew_dem.c:758-778 *)
CheckMask ==
  /\ pc = "check_mask"
  /\ IF inMaskFlag /\ ~inSarFlag
     THEN Fatal("Cannot produce a mask without a SAR")
     ELSE IF inMaskFlag /\ cfg.defect = "maskSize"
     THEN Fatal("The mask and the SAR image must be the same size")
     ELSE pc' = "write_meta" /\ err' = err
  /\ UNCHANGED <<cfg, y, b, d, buf, heap, files, cnt, log, written, maskWritten,
                 metaWritten, stats, geo, cvt>>

(* deskew_dem.c:780-801 *)
WriteMeta ==
  /\ pc = "write_meta"
  /\ metaWritten' = metaWritten \cup {"out"}
  /\ pc' = "alloc_buf"
  /\ UNCHANGED <<cfg, y, b, d, buf, heap, files, cnt, log, written, maskWritten,
                 stats, err, geo, cvt>>

(* deskew_dem.c:803-817.  MALLOC does not initialise: outLine, the one     *)
(* buffer that can be read before it is written, holds any line.           *)
AllocBuf ==
  /\ pc = "alloc_buf"
  /\ heap' = Malloc(heap, (LineBufs \ {"inSarLine"})
                          \cup (IF inSarFlag THEN {"inSarLine"} ELSE {}))
  /\ \E junk \in GarbageLines : buf' = [buf EXCEPT !.outLine = Wrap(junk)]
  /\ cnt' = [n_layover |-> 0, n_shadow |-> 0, n_user |-> 0]
  /\ pc' = "open_mask"
  /\ UNCHANGED <<cfg, y, b, d, files, log, written, maskWritten, metaWritten,
                 stats, err, geo, cvt>>

(* deskew_dem.c:819-827 *)
OpenMask ==
  /\ pc = "open_mask"
  /\ files' = Open(files, (IF inMaskFlag THEN {"inMask"} ELSE {})
                          \cup (IF outMaskFlag THEN {"outMask"} ELSE {}))
  /\ buf' = [buf EXCEPT !.maskLine = Const(ns, 1)]
  /\ y' = 0
  /\ pc' = "line"
  /\ UNCHANGED <<cfg, b, d, heap, cnt, log, written, maskWritten, metaWritten,
                 stats, err, geo, cvt>>

(* LineStart without the swap of deskew_dem.c:836-838 *)
LineStart_noswap ==
  /\ pc = "line"
  /\ y < cfg.numLines
  /\ LET sr   == DemLine(y)
         conv == dem_sr2gr(d, sr, ns, TRUE)
         gl   == IF cfg.inDemGround THEN shift_gr(d, GroundLine(y)) ELSE conv
     IN  buf' = [buf EXCEPT !.srDEMline = sr,
                            !.grDEMconv = conv,
                            !.gr = [@ EXCEPT ![buf.cur] = gl],
                            !.outLine = IF cfg.inDemGround
                                        THEN Wrap(GroundLine(y)) ELSE @]
  /\ log' = log \o << <<"get_dem", y, -1>>, <<"dem_sr2gr", y, -1>> >>
                \o (IF cfg.inDemGround THEN << <<"get_grdem", y, -1>> >> ELSE <<>>)
  /\ pc' = "mask"
  /\ UNCHANGED <<cfg, y, b, d, heap, files, cnt, written, maskWritten, metaWritten,
                 stats, err, geo, cvt>>

(* deskew_dem.c:833-866: swap the two ground-range lines, read slant-range *)
(* DEM line y, convert it, and supply the ground-range DEM line            *)
LineStart ==
  /\ pc = "line"
  /\ y < cfg.numLines
  /\ LET cur2 == 3 - buf.cur
         sr   == DemLine(y)
         conv == dem_sr2gr(d, sr, ns, TRUE)
         gl   == IF cfg.inDemGround THEN shift_gr(d, GroundLine(y)) ELSE conv
     IN  buf' = [buf EXCEPT !.cur = cur2,
                            !.srDEMline = sr,
                            !.grDEMconv = conv,
                            !.gr = [@ EXCEPT ![cur2] = gl],
                            !.outLine = IF cfg.inDemGround
                                        THEN Wrap(GroundLine(y)) ELSE @]
  /\ log' = log \o << <<"get_dem", y, -1>>, <<"dem_sr2gr", y, -1>> >>
                \o (IF cfg.inDemGround THEN << <<"get_grdem", y, -1>> >> ELSE <<>>)
  /\ pc' = "mask"
  /\ UNCHANGED <<cfg, y, b, d, heap, files, cnt, written, maskWritten, metaWritten,
                 stats, err, geo, cvt>>

(* deskew_dem.c:868-882 *)
MaskStep ==
  /\ pc = "mask"
  /\ IF inMaskFlag
     THEN \E g \in OobValues :
            LET r == geo_compensate(d, grDEM_for_geo, translate_mask(MaskLine(y)),
                                    Vals(buf.outLine), ns, FALSE, <<>>, FALSE, y, g,
                                    cnt.n_layover, cnt.n_shadow)
            IN  /\ buf' = [buf EXCEPT !.maskLine = r.out, !.outLine = Wrap(r.out)]
                /\ log' = log \o << <<"get_mask", y, -1>>, <<"geo_mask", y, -1>> >>
     ELSE UNCHANGED <<buf, log>>
  /\ b' = 0
  /\ pc' = "band"
  /\ UNCHANGED <<cfg, y, d, heap, files, cnt, written, maskWritten, metaWritten,
                 stats, err, geo, cvt>>

(* BandGeo with geo_compensate clamping heightShiftSR[0] in place *)
BandGeo_clamp ==
  /\ pc = "band"
  /\ b < band_count
  /\ IF inSarFlag
     THEN \E g \in OobValues :
            LET r == geo_compensate(d, grDEM_for_geo, SarLine(b, y), Vals(buf.outLine),
                                    ns, TRUE, buf.maskLine, TRUE, y, g,
                                    cnt.n_layover, cnt.n_shadow)
            IN  /\ buf' = [buf EXCEPT !.inSarLine = SarLine(b, y),
                                      !.outLine = Wrap(r.out),
                                      !.maskLine = r.mask]
                /\ cnt' = [cnt EXCEPT !.n_layover = r.n_layover,
                                      !.n_shadow = r.n_shadow]
                /\ log' = log \o << <<"get_sar", y, b>>, <<"geo", y, b>> >>
     ELSE UNCHANGED <<buf, cnt, log>>
  /\ d' = [d EXCEPT !.heightShiftSR = Put(@, 0, 0)]
  /\ pc' = "radio"
  /\ UNCHANGED <<cfg, y, b, heap, files, written, maskWritten, metaWritten,
                 stats, err, geo, cvt>>

(* deskew_dem.c:885-891 *)
BandGeo ==
  /\ pc = "band"
  /\ b < band_count
  /\ IF inSarFlag
     THEN \E g \in OobValues :
            LET r == geo_compensate(d, grDEM_for_geo, SarLine(b, y), Vals(buf.outLine),
                                    ns, TRUE, buf.maskLine, TRUE, y, g,
                                    cnt.n_layover, cnt.n_shadow)
            IN  /\ buf' = [buf EXCEPT !.inSarLine = SarLine(b, y),
                                      !.outLine = Wrap(r.out),
                                      !.maskLine = r.mask]
                /\ cnt' = [cnt EXCEPT !.n_layover = r.n_layover,
                                      !.n_shadow = r.n_shadow]
                /\ log' = log \o << <<"get_sar", y, b>>, <<"geo", y, b>> >>
     ELSE UNCHANGED <<buf, cnt, log>>
  /\ pc' = "radio"
  /\ UNCHANGED <<cfg, y, b, d, heap, files, written, maskWritten, metaWritten,
                 stats, err, geo, cvt>>

(* BandRadio testing y>0 only *)
BandRadio_anyform ==
  /\ pc = "radio"
  /\ IF y > 0
     THEN LET r == radio_compensate(d, grDEMline, grDEMlast, buf.outLine, ns, y,
                                    cfg.doRadiometric, buf.maskLine)
          IN  /\ buf' = [buf EXCEPT !.outLine = r.inout]
              /\ log' = Append(log, <<"radio", y, b>>)
              /\ IF r.err # "" THEN Fatal(r.err) ELSE pc' = "mask_float" /\ err' = err
     ELSE pc' = "mask_float" /\ UNCHANGED <<buf, log, err>>
  /\ UNCHANGED <<cfg, y, b, d, heap, files, cnt, written, maskWritten, metaWritten,
                 stats, geo, cvt>>

(* deskew_dem.c:892-894 *)
BandRadio ==
  /\ pc = "radio"
  /\ IF y > 0 /\ cfg.doRadiometric # 0
     THEN LET r == radio_compensate(d, grDEMline, grDEMlast, buf.outLine, ns, y,
                                    cfg.doRadiometric, buf.maskLine)
          IN  /\ buf' = [buf EXCEPT !.outLine = r.inout]
              /\ log' = Append(log, <<"radio", y, b>>)
              /\ IF r.err # "" THEN Fatal(r.err) ELSE pc' = "mask_float" /\ err' = err
     ELSE pc' = "mask_float" /\ UNCHANGED <<buf, log, err>>
  /\ UNCHANGED <<cfg, y, b, d, heap, files, cnt, written, maskWritten, metaWritten,
                 stats, geo, cvt>>

(* deskew_dem.c:896-898 *)
BandMask ==
  /\ pc = "mask_float"
  /\ LET r == mask_float_line(ns, cfg.fill_value, buf.outLine, buf.maskLine,
                              buf.grDEMconv, ~cfg.fill_holes, cnt.n_user)
     IN  /\ buf' = [buf EXCEPT !.outLine = r.line]
         /\ cnt' = [cnt EXCEPT !.n_user = r.n_user]
  /\ log' = Append(log, <<"mask_float", y, b>>)
  /\ pc' = "put"
  /\ UNCHANGED <<cfg, y, b, d, heap, files, written, maskWritten, metaWritten,
                 stats, err, geo, cvt>>

(* BandPut writing with put_float_line, which has no band argument *)
BandPut_band0 ==
  /\ pc = "put"
  /\ written' = Append(written, [b |-> 0, y |-> y, line |-> buf.outLine])
  /\ log' = Append(log, <<"put_band", y, 0>>)
  /\ b' = b + 1
  /\ pc' = "band"
  /\ UNCHANGED <<cfg, y, d, buf, heap, files, cnt, maskWritten, metaWritten,
                 stats, err, geo, cvt>>

(* deskew_dem.c:900-901 *)
BandPut ==
  /\ pc = "put"
  /\ written' = Append(written, [b |-> b, y |-> y, line |-> buf.outLine])
  /\ log' = Append(log, <<"put_band", y, b>>)
  /\ b' = b + 1
  /\ pc' = "band"
  /\ UNCHANGED <<cfg, y, d, buf, heap, files, cnt, maskWritten, metaWritten,
                 stats, err, geo, cvt>>

(* deskew_dem.c:902-906 *)
MaskPut ==
  /\ pc = "band"
  /\ b >= band_count
  /\ IF outMaskFlag
     THEN /\ maskWritten' = Append(maskWritten, [y |-> y, line |-> buf.maskLine])
          /\ log' = Append(log, <<"put_mask", y, -1>>)
     ELSE UNCHANGED <<maskWritten, log>>
  /\ y' = y + 1
  /\ pc' = "line"
  /\ UNCHANGED <<cfg, b, d, buf, heap, files, cnt, written, metaWritten,
                 stats, err, geo, cvt>>

(* deskew_dem.c:908-911 *)
CloseMaskIn ==
  /\ pc = "line"
  /\ y >= cfg.numLines
  /\ files' = IF inMaskFlag THEN Close(files, {"inMask"}) ELSE files
  /\ pc' = "mask_out"
  /\ UNCHANGED <<cfg, y, b, d, buf, heap, cnt, log, written, maskWritten,
                 metaWritten, stats, err, geo, cvt>>

(* MaskOut with the statistics report moved out of if (outMaskFlag) *)
MaskOut_report ==
  /\ pc = "mask_out"
  /\ IF outMaskFlag
     THEN /\ files' = Close(files, {"outMask"})
          /\ metaWritten' = metaWritten \cup {"outMask"}
     ELSE UNCHANGED <<files, metaWritten>>
  /\ stats' = stats + 1
  /\ pc' = "cleanup"
  /\ UNCHANGED <<cfg, y, b, d, buf, heap, cnt, log, written, maskWritten, err, geo, cvt>>

(* deskew_dem.c:915-936 *)
MaskOut ==
  /\ pc = "mask_out"
  /\ IF outMaskFlag
     THEN /\ files' = Close(files, {"outMask"})
          /\ metaWritten' = metaWritten \cup {"outMask"}
          /\ stats' = stats + 1
     ELSE UNCHANGED <<files, metaWritten, stats>>
  /\ pc' = "cleanup"
  /\ UNCHANGED <<cfg, y, b, d, buf, heap, cnt, log, written, maskWritten, err, geo, cvt>>

(* deskew_dem.c:938-966 *)
Cleanup ==
  /\ pc = "cleanup"
  /\ heap' = Free(heap, (IF inSarFlag THEN {"inSarLine"} ELSE {})
                        \cup {"srDEMline", "grDEMlast", "grDEMline", "grDEMconv", "outLine"}
                        \cup GeoArrays)
  /\ files' = Close(files, (IF inSarFlag THEN {"inSar"} ELSE {})
                           \cup {"inDemSlant", "inDemGround", "out"})
  /\ pc' = "done"
  /\ UNCHANGED <<cfg, y, b, d, buf, cnt, log, written, maskWritten, metaWritten,
                 stats, err, geo, cvt>>

Next ==
  \/ ReadMeta \/ SarMeta \/ GroundCheck \/ AllocGeom \/ OpenFiles \/ CheckMask
  \/ WriteMeta \/ AllocBuf \/ OpenMask
  \/ LineStart \/ MaskStep \/ BandGeo \/ BandRadio \/ BandMask \/ BandPut \/ MaskPut
  \/ CloseMaskIn \/ MaskOut \/ Cleanup

Spec == Init /\ [][Next]_vars

(***************************************************************************)
(* GeoSpec: one call of geo_compensate, taken one loop iteration at a      *)
(* time.  The call is one of the two the driver makes: on the translated   *)
(* mask line (doInterp 0, mask NULL) or on a band line (doInterp 1, mask   *)
(* maskLine, which holds any class left by the mask step, by the previous  *)
(* band or by the previous line).                                          *)
(***************************************************************************)
GeoHeights  == {B, 0, 2, 4}
GeoDemLines == [1..6 -> GeoHeights]
(* the lines taken through all bands of a line *)
GeoBandLines == { <<B, -2, B, 2, 4, -2>>, <<0, 0, 2, 4, 2, 0>>, <<B, B, -2, 0, 0, 4>> }
GeoMasks    == { <<1, 1, 1, 1, 1, 1>>, <<0, 0, 2, 0, 0, 5>>, <<5, 1, 3, 2, 4, 1>> }
GeoCfg      == [ inDemGround |-> FALSE, inSar |-> TRUE, inMask |-> FALSE,
                 outMask |-> FALSE, doRadiometric |-> 0, fill_holes |-> TRUE,
                 fill_value |-> LEAVE_MASK, which_gr_dem |-> "BACKCONVERTED_GR_DEM",
                 defect |-> "none", numLines |-> 1, bands |-> 1, demSeed |-> 0,
                 geom |-> CHOOSE g \in Geometries : TRUE ]

GeoInit ==
  /\ pc = "geo"
  /\ y = 0 /\ b = 0
  /\ d \in Geometries
  /\ buf = [srDEMline |-> <<>>, gr |-> <<(<<>>), (<<>>)>>, cur |-> 1, grDEMconv |-> <<>>,
            inSarLine |-> <<>>, outLine |-> <<>>, maskLine |-> <<>>]
  /\ heap = [n \in GeoArrays \cup LineBufs |-> [a |-> 0, f |-> 0]]
  /\ files = [n \in Files |-> [o |-> 0, c |-> 0]]
  /\ cnt = [n_layover |-> 0, n_shadow |-> 0, n_user |-> 0]
  /\ log = <<>>
  /\ written = <<>>
  /\ maskWritten = <<>>
  /\ metaWritten = {}
  /\ stats = 0
  /\ err = ""
  /\ cvt = NoConv
  /\ \E grDEM \in GeoDemLines \cup GeoBandLines, g \in OobValues :
       \/ \E in \in {SarPool[i] : i \in 1..Len(SarPool)}, mask \in GeoMasks :
            geo = geo_begin(d, grDEM, in, Const(d.numSamples, 0), d.numSamples,
                            TRUE, mask, TRUE, 0, g, 0, 0)
       \/ \E raw \in {MaskPool[i] : i \in 1..Len(MaskPool)} :
            geo = geo_begin(d, grDEM, translate_mask(raw), Const(d.numSamples, 0),
                            d.numSamples, FALSE, <<>>, FALSE, 0, g, 0, 0)
  /\ \E n \in 1..MaxBands :
       /\ n > 1 => geo.hasMask /\ geo.grDEM \in GeoBandLines
       /\ cfg = [GeoCfg EXCEPT !.bands = n]

GeoFrame == UNCHANGED <<cfg, pc, y, b, d, buf, heap, files, cnt, log, written,
                        maskWritten, metaWritten, stats, err, cvt>>

GeoSweepStep  == geo.phase = "sweep"  /\ geo' = geo_sweep(geo)  /\ GeoFrame
GeoCloseStep  == geo.phase = "close"  /\ geo' = geo_close(geo)  /\ GeoFrame
GeoEdgeStep   == geo.phase = "edge"   /\ geo' = geo_edge(geo)   /\ GeoFrame
GeoFinishStep == geo.phase = "finish" /\ geo' = geo_finish(geo) /\ GeoFrame


(* deskew_dem.c:884-891: the call has returned; the next band of the line  *)
(* is read and geo_compensate is called on it with the same maskLine       *)
GeoBandStep ==
  /\ geo.phase = "ret" /\ geo.hasMask /\ b + 1 < cfg.bands
  /\ \E in \in {SarPool[i] : i \in 1..Len(SarPool)} :
       geo' = geo_begin(geo.d, geo.grDEM, in, geo.out, geo.ns, TRUE, geo.mask, TRUE,
                        geo.line, geo.g, geo.n_layover, geo.n_shadow)
  /\ b' = b + 1
  /\ buf' = [buf EXCEPT !.maskLine = geo.mask]
  /\ UNCHANGED <<cfg, pc, y, d, heap, files, cnt, log, written, maskWritten,
                 metaWritten, stats, err, cvt>>

GeoNext == GeoSweepStep \/ GeoCloseStep \/ GeoEdgeStep \/ GeoFinishStep \/ GeoBandStep

GeoSpec == GeoInit /\ [][GeoNext]_vars

(***************************************************************************)
(* Sr2grSpec: one call of dem_sr2gr, taken one iteration of its for(inX)   *)
(* loop at a time, on a line of eight samples so that gaps of up to six    *)
(* output pixels occur.  The tables are made as those of Geometries.       *)
(***************************************************************************)
WideGeometries ==
  { [ q |-> 4, numSamples |-> 8,
      slantGR       |-> <<0, 3, 7, 11, 15, 19, 23, 28>>,
      groundSR      |-> <<0, 5, 9, 13, 17, 21, 25, 28>>,
      heightShiftGR |-> <<2, 2, 2, 2, 2, 2, 2, 2>>,
      heightShiftSR |-> <<-2, -2, -2, -2, -2, -2, -2, -2>>,
      sinIncidAng   |-> <<3, 3, 4, 4, 5, 5, 6, 6>>,
      cosIncidAng   |-> <<6, 6, 5, 5, 4, 4, 3, 3>>,
      grPixelSize   |-> 2,
      lookBase      |-> <<0, 4, 8, 12, 16, 20, 24, 28>>,
      lookGain      |-> 3 ] }

Sr2grHeights == {B, N, 0, 2}
Sr2grLines   == [1..8 -> Sr2grHeights]

Sr2grInit ==
  /\ d \in WideGeometries
  /\ cfg = [GeoCfg EXCEPT !.geom = d]
  /\ pc = "sr2gr"
  /\ y = 0 /\ b = 0
  /\ buf = [srDEMline |-> <<>>, gr |-> <<(<<>>), (<<>>)>>, cur |-> 1, grDEMconv |-> <<>>,
            inSarLine |-> <<>>, outLine |-> <<>>, maskLine |-> <<>>]
  /\ heap = [n \in GeoArrays \cup LineBufs |-> [a |-> 0, f |-> 0]]
  /\ files = [n \in Files |-> [o |-> 0, c |-> 0]]
  /\ cnt = [n_layover |-> 0, n_shadow |-> 0, n_user |-> 0]
  /\ log = <<>>
  /\ written = <<>>
  /\ maskWritten = <<>>
  /\ metaWritten = {}
  /\ stats = 0
  /\ err = ""
  /\ geo = NoGeo
  /\ \E inBuf \in Sr2grLines, fill_holes \in BOOLEAN :
       cvt = [inX |-> 0, inBuf |-> inBuf, fill_holes |-> fill_holes,
               st |-> sr2gr_begin(d.numSamples)]

(* one iteration of for (inX=0;inX<ns;inX++), deskew_dem.c:148-177 *)
Sr2grStep ==
  /\ cvt.inX >= 0 /\ cvt.inX < ns
  /\ cvt' = [cvt EXCEPT !.st = sr2gr_step(d, cvt.inBuf, ns, cvt.fill_holes,
                                            cvt.inX, cvt.st),
                          !.inX = @ + 1]
  /\ UNCHANGED <<cfg, pc, y, b, d, buf, heap, files, cnt, log, written,
                 maskWritten, metaWritten, stats, err, geo>>

Sr2grNext == Sr2grStep

Sr2grSpec == Sr2grInit /\ [][Sr2grNext]_vars

(***************************************************************************)
(* Properties                                                              *)
(***************************************************************************)
Pos(e) == {i \in 1..Len(log) : log[i] = e}
Once(e) == Cardinality(Pos(e)) <= 1
Before(e1, e2) == \A j \in Pos(e2) : \E i \in Pos(e1) : i < j
LinesStarted == Cardinality({i \in 1..Len(log) : log[i][1] = "get_dem"})
Scaled(p) == p.k # <<>>
OutSamples ==
  {buf.outLine[i] : i \in 1..Len(buf.outLine)}
  \cup UNION {{written[j].line[i] : i \in 1..Len(written[j].line)} : j \in 1..Len(written)}
UntestedMsg == "untested radiometric terrain correction formula"
OtherForm == inSarFlag /\ cfg.doRadiometric \notin {0, 5}

C2_ErrorsBeforeLoop == pc = "error" => LinesStarted = 0

C2_Witness ==
  /\ pc = "error" /\ err = "The mask and the SAR image must be the same size"
  /\ files["out"].o = 1 /\ cfg.numLines > 1

(* C3: lines are processed in increasing order; within line y the DEM line *)
(* is read and converted before any band is compensated, each band line is *)
(* written once, after its geometric and radiometric compensation and its  *)
(* masking, the mask line once after all bands, and nothing of line y+1 is *)
(* read before every output of line y is written.                          *)
C3_LineOrder ==
  /\ \A j \in 1..Len(log) :
       log[j][1] = "get_dem" =>
         log[j][2] = Cardinality({i \in 1..(j - 1) : log[i][1] = "get_dem"})
  /\ \A yy \in 0..(cfg.numLines - 1) :
       /\ Once(<<"get_dem", yy, -1>>) /\ Once(<<"put_mask", yy, -1>>)
       /\ Before(<<"get_dem", yy, -1>>, <<"dem_sr2gr", yy, -1>>)
       /\ Before(<<"get_dem", yy, -1>>, <<"get_grdem", yy, -1>>)
       /\ Before(<<"get_dem", yy, -1>>, <<"get_mask", yy, -1>>)
       /\ Before(<<"put_mask", yy, -1>>, <<"get_dem", yy + 1, -1>>) \/ ~outMaskFlag
       /\ \A bb \in 0..(MaxBands + 1) :
            /\ Once(<<"put_band", yy, bb>>) /\ Once(<<"geo", yy, bb>>)
            /\ Pos(<<"put_band", yy, bb>>) # {} => bb < band_count
            /\ Before(<<"dem_sr2gr", yy, -1>>, <<"geo", yy, bb>>)
            /\ Before(<<"get_dem", yy, -1>>, <<"get_sar", yy, bb>>)
            /\ Before(<<"get_sar", yy, bb>>, <<"geo", yy, bb>>)
            /\ inSarFlag => Before(<<"geo", yy, bb>>, <<"put_band", yy, bb>>)
            /\ inSarFlag => Before(<<"geo", yy, bb>>, <<"radio", yy, bb>>)
            /\ (yy > 0 /\ cfg.doRadiometric # 0) =>
                 /\ Before(<<"radio", yy, bb>>, <<"mask_float", yy, bb>>)
                 /\ Before(<<"radio", yy, bb>>, <<"put_band", yy, bb>>)
            /\ Before(<<"mask_float", yy, bb>>, <<"put_band", yy, bb>>)
            /\ Before(<<"put_band", yy, bb>>, <<"put_mask", yy, -1>>) \/ bb >= band_count
            /\ Before(<<"put_band", yy, bb>>, <<"get_dem", yy + 1, -1>>) \/ bb >= band_count
  /\ pc = "done" =>
       \A yy \in 0..(cfg.numLines - 1) :
         /\ \A bb \in 0..(band_count - 1) : Pos(<<"put_band", yy, bb>>) # {}
         /\ outMaskFlag => Pos(<<"put_mask", yy, -1>>) # {}

C3_Witness ==
  /\ pc = "done" /\ cfg.numLines = 2 /\ band_count = 2 /\ outMaskFlag /\ inMaskFlag
  /\ cfg.doRadiometric # 0 /\ cfg.inDemGround
  /\ Len(written) = 4 /\ Len(maskWritten) = 2

(* C4: without a SAR image radio_compensate is never invoked.              *)
C4_NoRadioWithoutSar ==
  ~inSarFlag => \A i \in 1..Len(log) : log[i][1] # "radio"

(* C5: without an input mask no mask raster is opened or written, no mask  *)
(* metadata is written and no mask statistics are reported.                *)
C5_NoMaskOutputWithoutMask ==
  ~inMaskFlag => /\ files["outMask"].o = 0
                 /\ maskWritten = <<>>
                 /\ "outMask" \notin metaWritten
                 /\ stats = 0

(* C6: without a SAR image every line written to the output is the         *)
(* ground-range DEM line dem_sr2gr makes of slant-range DEM line y.        *)
C6_WritesDeskewedDem ==
  ~inSarFlag => \A j \in 1..Len(written) :
                  written[j].line = Wrap(dem_sr2gr(d, DemLine(written[j].y), ns, TRUE))

(* C7, as claimed: every successful run reports the mask statistics.       *)
C7_AlwaysReports == pc = "done" => stats = 1

(* C7, amended: a successful run reports the mask statistics, once,        *)
(* exactly when an output mask was requested (outMaskName not NULL).       *)
C7_ReportsIffMaskOutput ==
  pc = "done" => stats = (IF outMaskFlag THEN 1 ELSE 0)

C7_Witness ==
  pc = "done" /\ outMaskFlag /\ stats = 1 /\ cnt.n_layover > 0 /\ cnt.n_user > 0

(* C8: at a successful return every buffer allocated has been freed once   *)
(* and every file has been closed as many times as it was opened.          *)
C8_AllReleased ==
  pc = "done" => /\ \A n \in DOMAIN heap : heap[n].f = heap[n].a
                 /\ \A f \in DOMAIN files : files[f].c = files[f].o

(* C9: once input validation has passed the run never reaches the         *)
(* fatal-error state, whatever the DEM, SAR and mask lines hold: every     *)
(* step brings it one step closer to its return (StepsLeft counts the      *)
(* steps deskew_dem still has to take for numLines lines of band_count     *)
(* bands), and it returns only after all numLines lines of every band      *)
(* have been written.                                                      *)
Validated == pc \notin {"start", "sar_meta", "ground_check", "alloc_geom", "open",
                        "check_mask", "error"}
Returned ==
  /\ pc = "done" /\ err = ""
  /\ y = cfg.numLines
  /\ LinesStarted = cfg.numLines
  /\ Len(written) = cfg.numLines * band_count
PerLine == 4 * band_count + 3
StepsLeft ==
  CASE pc = "write_meta" -> cfg.numLines * PerLine + 6
    [] pc = "alloc_buf"  -> cfg.numLines * PerLine + 5
    [] pc = "open_mask"  -> cfg.numLines * PerLine + 4
    [] pc = "line"       -> (cfg.numLines - y) * PerLine + 3
    [] pc = "mask"       -> (cfg.numLines - y) * PerLine + 2
    [] pc = "band"       -> (cfg.numLines - y) * PerLine + 1 - 4 * b
    [] pc = "radio"      -> (cfg.numLines - y) * PerLine - 4 * b
    [] pc = "mask_float" -> (cfg.numLines - y) * PerLine - 1 - 4 * b
    [] pc = "put"        -> (cfg.numLines - y) * PerLine - 2 - 4 * b
    [] pc = "mask_out"   -> 2
    [] pc = "cleanup"    -> 1
    [] pc = "done"       -> 0
    [] OTHER             -> -1

C9_DataNeverFatal ==
  /\ [][Validated => pc' # "error" /\ StepsLeft' = StepsLeft - 1]_vars
  /\ [](Validated => StepsLeft >= 0 /\ (StepsLeft = 0 <=> pc = "done"))
  /\ [](pc = "done" => Returned)

C9_Witness ==
  /\ pc = "done" /\ cfg.numLines = 2 /\ cfg.doRadiometric # 0 /\ inSarFlag
  /\ cnt.n_layover > 0
  /\ \E i \in 1..ns : buf.grDEMconv[i] = NO_DEM_DATA
  /\ \E i \in 1..ns : buf.maskLine[i] = MASK_INVALID_DATA

(* the slant-range pixel the sweep of geo is about to hit, and its hits *)
HitX == Floor(sweep_srX(geo), geo.d.q)
Hit0 == At(geo.sr_hits, HitX)
Hit1 == At(geo.sr_hits, geo.ns + HitX)
AtHit == geo.phase = "sweep" /\ geo.hasMask /\ sweep_in_swath(geo)
ThirdHit == AtHit /\ Hit0 # -1 /\ Hit1 # -1
NoNewLayover ==
  \A i \in 1..geo.ns : geo'.mask[i] = MASK_LAYOVER => geo.mask[i] = MASK_LAYOVER

(* C10, as claimed: on a third or later hit of a slant-range pixel all     *)
(* recorded origins and the current pixel are layover afterwards; a first  *)
(* or second hit marks no pixel layover.                                   *)
C10_ThirdHitMarksAll ==
  [][ /\ ThirdHit => \A p \in {Hit0, Hit1, geo.grX} : At(geo'.mask, p) = MASK_LAYOVER
      /\ (AtHit /\ ~ThirdHit) => NoNewLayover ]_vars

(* C10, amended: on a third or later hit the recorded origins and the      *)
(* current pixel that are normal become layover and those that are not     *)
(* (user-masked, invalid-data, shadow) keep their class; a first or second *)
(* hit marks no pixel layover.                                             *)
C10_ThirdHitMarksNormal ==
  [][ /\ ThirdHit =>
           \A p \in {Hit0, Hit1, geo.grX} :
             At(geo'.mask, p) = IF At(geo.mask, p) = MASK_NORMAL
                                THEN MASK_LAYOVER ELSE At(geo.mask, p)
      /\ (AtHit /\ ~ThirdHit) => NoNewLayover ]_vars

C10_Witness ==
  /\ geo.phase = "sweep" /\ geo.hasMask /\ geo.n_layover = 2
  /\ \E x \in 0..(geo.ns - 1) :
       /\ At(geo.sr_hits, x) # -1 /\ At(geo.sr_hits, geo.ns + x) # -1
       /\ At(geo.mask, At(geo.sr_hits, x)) = MASK_USER_MASK
       /\ At(geo.mask, At(geo.sr_hits, geo.ns + x)) = MASK_LAYOVER
       /\ At(geo.mask, geo.grX - 1) = MASK_LAYOVER

(* the look value of the pixel the sweep of geo is at, whether a ground-   *)
(* range pixel x is evaluated by the sweep (valid height, source inside    *)
(* the swath), and the largest look value of the evaluated pixels before   *)
(* the one the sweep is at                                                 *)
Look == cur_look(geo.d, geo.grX, At(geo.grDEM, geo.grX))
Evaluated(x) ==
  LET h   == BadHeightGeo(At(geo.grDEM, x))
      srX == dem_gr2sr(geo.d, x * geo.d.q, h, geo.g)
  IN  h # badDEMht /\ srX >= geo.d.q /\ srX < (geo.ns - 1) * geo.d.q
EarlierLooks ==
  {cur_look(geo.d, x, At(geo.grDEM, x)) : x \in {z \in 0..(geo.grX - 1) : Evaluated(z)}}
RunningMax ==
  IF EarlierLooks = {} THEN LookFloor(geo.d)
  ELSE CHOOSE m \in EarlierLooks : \A l \in EarlierLooks : l <= m
Sweeping == geo.phase = "sweep" /\ geo.hasMask
LookTracked ==
  /\ [](Sweeping => geo.biggest_look = RunningMax)
  /\ [][Sweeping /\ geo'.phase = "sweep" => geo'.biggest_look >= geo.biggest_look]_vars

(* C11, as claimed: in the sweep the tracked look value is the maximum     *)
(* over the evaluated pixels so far and never decreases; an evaluated      *)
(* pixel whose look value is below it is marked shadow, any other          *)
(* evaluated pixel becomes the new maximum and is not marked shadow.       *)
C11_BelowMaxIsShadow ==
  /\ LookTracked
  /\ [][AtHit => IF Look < geo.biggest_look
                 THEN /\ At(geo'.mask, geo.grX) = MASK_SHADOW
                      /\ geo'.biggest_look = geo.biggest_look
                 ELSE /\ At(geo'.mask, geo.grX) # MASK_SHADOW
                      /\ geo'.biggest_look = Look]_vars

(* C11, amended: as above, but an evaluated pixel whose look value is      *)
(* below the maximum is marked shadow only if it is still normal after the *)
(* layover test of the same iteration; a user-masked or invalid-data pixel *)
(* and a pixel just marked layover keep their class.                       *)
C11_BelowMaxNormalIsShadow ==
  /\ LookTracked
  /\ [][AtHit => IF Look < geo.biggest_look
                 THEN /\ At(geo'.mask, geo.grX) =
                           IF At(geo.mask, geo.grX) # MASK_NORMAL THEN At(geo.mask, geo.grX)
                           ELSE IF ThirdHit THEN MASK_LAYOVER ELSE MASK_SHADOW
                      /\ geo'.biggest_look = geo.biggest_look
                 ELSE /\ At(geo'.mask, geo.grX) # MASK_SHADOW
                      /\ geo'.biggest_look = Look]_vars

C11_Witness ==
  /\ geo.phase = "close" /\ geo.grX = 2
  /\ \E p \in 0..(geo.ns - 1) : \E e \in 0..(p - 1) :
       /\ Evaluated(p) /\ Evaluated(e)
       /\ cur_look(geo.d, p, At(geo.grDEM, p)) < cur_look(geo.d, e, At(geo.grDEM, e))
       /\ At(geo.mask, p) \in {MASK_USER_MASK, MASK_INVALID_DATA, MASK_LAYOVER}

(* the dem_sr2gr call of cvt has returned; its output line; its input     *)
(* line holds c everywhere                                                 *)
ConvDone == cvt.inX = ns
ConvOut(i) == At(cvt.st.out, i)
ConstantLine(c) == \A i \in 0..(ns - 1) : At(cvt.inBuf, i) = c

(* C12: with fill_holes true, a line whose samples all carry the same      *)
(* valid height c is converted to a line whose positions hold c or the     *)
(* bad-height sentinel, the latter only in runs that touch an end of the   *)
(* line: no bad position lies between two positions that hold c.           *)
C12_ConstantLineStaysConstant ==
  (ConvDone /\ cvt.fill_holes) =>
     \A c \in Sr2grHeights \ {badDEMht} :
       ConstantLine(c) =>
         /\ \A i \in 0..(ns - 1) : ConvOut(i) \in {c, badDEMht}
         /\ \A i, j, k \in 0..(ns - 1) :
              (i < j /\ j < k /\ ConvOut(i) = c /\ ConvOut(k) = c) => ConvOut(j) = c

C12_Witness ==
  /\ ConvDone /\ cvt.fill_holes /\ ConstantLine(2)
  /\ ConvOut(0) = badDEMht /\ ConvOut(ns - 1) = badDEMht
  /\ Cardinality({i \in 0..(ns - 1) : ConvOut(i) = 2}) >= 4

(* C13: radio_compensate is invoked for a band line only when              *)
(* doRadiometric is nonzero and y > 0: no sample of a line 0 written to    *)
(* the output is scaled, and with doRadiometric 0 no sample of the line    *)
(* buffer or of any written line is scaled.                                *)
C13_RadioOnlyIfRequestedAfterLine0 ==
  /\ \A i \in 1..Len(log) :
       log[i][1] = "radio" => log[i][2] > 0 /\ cfg.doRadiometric # 0
  /\ \A j \in 1..Len(written) :
       written[j].y = 0 => \A i \in 1..Len(written[j].line) : ~Scaled(written[j].line[i])
  /\ cfg.doRadiometric = 0 => \A p \in OutSamples : ~Scaled(p)

C13_Witness ==
  /\ pc = "done" /\ cfg.doRadiometric # 0 /\ cfg.numLines = 2
  /\ \E i \in 1..Len(log) : log[i][1] = "radio" /\ log[i][2] = 1
  /\ \E j \in 1..Len(written) :
       written[j].y = 1 /\ \E i \in 1..Len(written[j].line) : Scaled(written[j].line[i])

(* the ground-range DEM line iteration yy of the per-line loop produces,   *)
(* from the inputs of the run                                              *)
ProducedLine(yy) ==
  IF cfg.inDemGround THEN shift_gr(d, GroundLine(yy))
  ELSE dem_sr2gr(d, DemLine(yy), ns, TRUE)
InIteration == pc \in {"mask", "band", "radio", "mask_float", "put"}

(* C14: from the start of iteration y to its end grDEMline holds the       *)
(* ground-range DEM line produced in iteration y and, for y >= 1,          *)
(* grDEMlast the one produced in iteration y-1 (so radio_compensate gets   *)
(* these two); each iteration exchanges the two buffers, which are two     *)
(* distinct buffers, and writes only the one that becomes grDEMline.       *)
C14_PingPong ==
  /\ [](InIteration => /\ grDEMline = ProducedLine(y)
                        /\ (y >= 1 => grDEMlast = ProducedLine(y - 1)))
  /\ []((pc = "line" /\ y >= 1) => grDEMline = ProducedLine(y - 1))
  /\ [](buf.cur \in {1, 2})
  /\ [][IF pc = "line" /\ pc' = "mask"
         THEN /\ buf'.cur = 3 - buf.cur
              /\ buf'.gr[3 - buf'.cur] = buf.gr[buf.cur]
         ELSE /\ buf'.cur = buf.cur
              /\ buf'.gr = buf.gr]_vars

C14_Witness ==
  /\ pc = "mask_float" /\ y = 1 /\ cfg.doRadiometric # 0
  /\ log[Len(log)] = <<"radio", 1, b>>
  /\ grDEMline # grDEMlast
  /\ grDEMlast = ProducedLine(0) /\ grDEMline = ProducedLine(1)

(* C15: every index SR2GR and dem_gr2sr read a table with lies inside the  *)
(* table: the ground-range pixel dem_gr2sr is called for in the two loops  *)
(* of geo_compensate, and the slant-range positions max_valid_srX and      *)
(* min_valid_srX geo_compensate hands to SR2GR before it returns.          *)
C15_IndicesInBounds ==
  /\ geo.phase \in {"sweep", "edge"} =>
       InBounds(geo.d.heightShiftGR, Trunc(geo.grX * geo.d.q, geo.d.q))
  /\ (geo.phase = "finish" /\ geo.hasMask) =>
       /\ InBounds(geo.d.heightShiftSR, Trunc(geo.max_valid_srX, geo.d.q))
       /\ InBounds(geo.d.heightShiftSR, Trunc(geo.min_valid_srX, geo.d.q))

(* the mask line the processing of line yy yields when it starts from the  *)
(* mask line m0 (the empty mask, or what an earlier line left behind):     *)
(* the mask step and the bands of line yy, recomputed from the inputs      *)
GeoDemOf(yy) ==
  IF cfg.which_gr_dem = "ORIGINAL_GR_DEM" THEN ProducedLine(yy)
  ELSE dem_sr2gr(d, DemLine(yy), ns, TRUE)
MaskAfterMaskStep(yy, m0, g) ==
  IF inMaskFlag
  THEN geo_compensate(d, GeoDemOf(yy), translate_mask(MaskLine(yy)), Const(ns, 0),
                      ns, FALSE, <<>>, FALSE, yy, g, 0, 0).out
  ELSE m0
RECURSIVE MaskAfterBands(_, _, _, _)
MaskAfterBands(yy, n, m0, g) ==
  IF n = 0 \/ ~inSarFlag THEN MaskAfterMaskStep(yy, m0, g)
  ELSE geo_compensate(d, GeoDemOf(yy), SarLine(n - 1, yy), Const(ns, 0), ns, TRUE,
                      MaskAfterBands(yy, n - 1, m0, g), TRUE, yy, g, 0, 0).mask
EmptyMask == Const(ns, 1)
AtMaskPut == pc = "band" /\ b >= band_count /\ outMaskFlag

(* C16: the mask line of line y is determined by the inputs of line y      *)
(* only: the mask line put to the output mask for line y is the one the    *)
(* processing of line y yields from the empty mask, whatever the lines     *)
(* before y left in maskLine; a pixel does not stay invalid-data because   *)
(* line y-1 marked it.                                                     *)
C16_MaskPerLine ==
  AtMaskPut => \E g \in OobValues : buf.maskLine = MaskAfterBands(y, band_count, EmptyMask, g)

(* geo has returned from the call for a band after the first of the line; *)
(* buf.maskLine is the mask line as the band before left it                *)
LaterBandDone == geo.phase = "ret" /\ geo.hasMask /\ b >= 1
Promoted(v) == v = MASK_LAYOVER \/ v = MASK_SHADOW

(* C17: within the processing of one line a pixel of the mask line that    *)
(* has been promoted to layover or shadow is not normal again after a      *)
(* later band of the line has been compensated.                            *)
C17_NotDemotedWithinLine ==
  LaterBandDone =>
    \A i \in 1..geo.ns : Promoted(buf.maskLine[i]) => geo.mask[i] # MASK_NORMAL

(* the hole-closing pass of geo is over (the mask is not written again     *)
(* before the marking of invalid data); pixel p has two neighbours of      *)
(* class c                                                                 *)
ClosePassDone == geo.phase = "edge" /\ geo.hasMask
Flanked(m, p, c) == At(m, p - 1) = c /\ At(m, p + 1) = c
ClosesHole(p) ==
  /\ At(geo.mask, p) = MASK_NORMAL
  /\ Flanked(geo.mask, p, MASK_LAYOVER) \/ Flanked(geo.mask, p, MASK_SHADOW)

(* C18: the hole-closing pass promotes every normal pixel between two      *)
(* layover pixels or two shadow pixels, at every position 1..ns-2, and     *)
(* changes nothing else: each of its steps leaves the mask alone or        *)
(* promotes exactly such a pixel to the class of its neighbours, and after *)
(* the pass no normal pixel of 1..ns-2 lies between two layover or two     *)
(* shadow pixels.                                                          *)
C18_ClosesEveryHole ==
  /\ [](ClosePassDone =>
          \A p \in 1..(geo.ns - 2) :
            At(geo.mask, p) = MASK_NORMAL =>
              ~Flanked(geo.mask, p, MASK_LAYOVER) /\ ~Flanked(geo.mask, p, MASK_SHADOW))
  /\ [][geo.phase = "close" =>
          \/ geo'.mask = geo.mask /\ ~ClosesHole(geo.grX)
          \/ /\ ClosesHole(geo.grX)
             /\ geo'.mask = Put(geo.mask, geo.grX, At(geo.mask, geo.grX - 1))]_vars

(* pixel i of the mask of geo becomes invalid-data in the step; i lies at  *)
(* or beyond the right end, or at or before the left end, of the valid     *)
(* data of the line                                                        *)
NewlyInvalid(i) ==
  At(geo'.mask, i) = MASK_INVALID_DATA /\ At(geo.mask, i) # MASK_INVALID_DATA
OutsideValid(i) ==
  \/ max_valid_grX(geo) < geo.ns - 1 /\ max_valid_grX(geo) >= 0 /\ i >= max_valid_grX(geo)
  \/ min_valid_grX(geo) < geo.ns - 1 /\ min_valid_grX(geo) >= 0 /\ i <= min_valid_grX(geo)

(* C19: geo_compensate marks a pixel invalid-data only in its last step,   *)
(* and only a pixel whose output value is zero and which lies outside the  *)
(* valid range on the left or on the right; a pixel with nonzero output,   *)
(* whatever its class, is never made invalid-data.                         *)
C19_InvalidOnlyIfZeroOutside ==
  [][(geo.hasMask /\ geo'.hasMask /\ geo.phase # "ret") =>
       \A i \in 0..(geo.ns - 1) :
         NewlyInvalid(i) =>
           geo.phase = "finish" /\ At(geo.out, i) = 0 /\ OutsideValid(i)]_vars

(* the iteration of dem_sr2gr cvt is at: its height, its output position,  *)
(* the distance to the last output position; the iteration has a valid     *)
(* output with a valid output before it, neither of them NO_DEM_DATA       *)
CvtHeight == At(cvt.inBuf, cvt.inX)
CvtOutX == Trunc(SR2GR(d, cvt.inX * d.q, CvtHeight, 0), d.q)
CvtGap == CvtOutX - cvt.st.lastOutX
BetweenValid ==
  /\ cvt.inX >= 0 /\ cvt.inX < ns
  /\ CvtHeight > badDEMht /\ CvtOutX >= 0 /\ CvtOutX < ns
  /\ cvt.st.lastOutValue # badDEMht
  /\ cvt.st.lastOutValue # NO_DEM_DATA /\ CvtHeight # NO_DEM_DATA
  /\ CvtGap >= 1
Linear(x) ==
  cvt.st.lastOutValue
    + ((CvtHeight - cvt.st.lastOutValue) * (x - cvt.st.lastOutX)) \div CvtGap

(* C20: the output positions between two consecutive valid outputs are     *)
(* left as they are (at the bad-height sentinel) exactly when fill_holes   *)
(* is false and the gap outX - lastOutX exceeds 5; a gap of 5 or fewer,    *)
(* and every gap when fill_holes is true, is linearly interpolated.        *)
C20_GapLeftIffOver5 ==
  [][BetweenValid =>
       \A x \in (cvt.st.lastOutX + 1)..CvtOutX :
         At(cvt'.st.out, x) = IF ~cvt.fill_holes /\ CvtGap > 5
                              THEN At(cvt.st.out, x) ELSE Linear(x)]_vars

(* the iteration cvt is at has a valid output and the no-DEM-data sentinel *)
(* at an end of its gap                                                    *)
NoDataGap ==
  /\ cvt.inX >= 0 /\ cvt.inX < ns
  /\ CvtHeight > badDEMht /\ CvtOutX >= 0 /\ CvtOutX < ns
  /\ cvt.st.lastOutValue = NO_DEM_DATA \/ CvtHeight = NO_DEM_DATA

(* C21: when the previous valid output value or the current height is the  *)
(* no-DEM-data sentinel, every output position from lastOutX+1 to outX is  *)
(* set to that sentinel, none is interpolated and no other position is     *)
(* written, whatever fill_holes and the length of the gap.                 *)
C21_NoDataFillsGap ==
  [][NoDataGap =>
       \A x \in 0..(ns - 1) :
         At(cvt'.st.out, x) = IF cvt.st.lastOutX + 1 <= x /\ x <= CvtOutX
                              THEN NO_DEM_DATA ELSE At(cvt.st.out, x)]_vars

C21_Witness ==
  /\ ConvDone /\ ~cvt.fill_holes
  /\ cvt.inBuf = <<N, B, B, B, B, B, 0, B>>
  /\ \A x \in 0..6 : ConvOut(x) = NO_DEM_DATA
  /\ ConvOut(7) = badDEMht

(* pixel x of the line of geo has a valid DEM height; the slant-range      *)
(* position of pixel x at its own height, its integer part and its         *)
(* fraction (in 1/q); the position lies in the swath                       *)
ValidHeight(x) == BadHeightGeo(At(geo.grDEM, x)) # badDEMht
SrXOf(x) == dem_gr2sr(geo.d, x * geo.d.q, At(geo.grDEM, x), geo.g)
SrIdx(x) == Floor(SrXOf(x), geo.d.q)
SrFrac(x) == SrXOf(x) - SrIdx(x) * geo.d.q
InSwath(x) == SrXOf(x) >= geo.d.q /\ SrXOf(x) < (geo.ns - 1) * geo.d.q
Resampled(x) ==
  IF geo.doInterp
  THEN ((geo.d.q - SrFrac(x)) * At(geo.in, SrIdx(x))
          + SrFrac(x) * At(geo.in, SrIdx(x) + 1)) \div geo.d.q
  ELSE IF 2 * SrFrac(x) <= geo.d.q THEN At(geo.in, SrIdx(x))
  ELSE At(geo.in, SrIdx(x) + 1)

NoHeightUpTo(x) == \A z \in 0..x : ~ValidHeight(z)

(* C23: when geo_compensate returns, a pixel whose DEM height is missing   *)
(* and that has no valid height at any earlier pixel of the line has       *)
(* output zero.                                                            *)
C23_NoPriorHeightZero ==
  geo.phase = "ret" =>
    \A x \in 0..(geo.ns - 1) : NoHeightUpTo(x) => At(geo.out, x) = 0

(* deskew_dem is about to call radio_compensate; a missing DEM height; the *)
(* slope of the ground-range DEM at pixel x and the sign of cosAng there   *)
RadioCall == pc = "radio" /\ y > 0 /\ cfg.doRadiometric # 0
MissingHeight(h) == h < -900 \/ h = badDEMht
SlopeX(x) == At(grDEMline, x) - At(grDEMline, x - 1)
FacesAway(x) ==
  SlopeX(x) * At(d.sinIncidAng, x) + At(d.cosIncidAng, x) * d.grPixelSize < 0
RadioSkips(x) ==
  \/ x = 0
  \/ At(buf.maskLine, x) = MASK_USER_MASK
  \/ MissingHeight(At(grDEMline, x)) \/ MissingHeight(At(grDEMline, x - 1))
  \/ MissingHeight(At(grDEMlast, x))
  \/ FacesAway(x)

(* C24: radio_compensate leaves inout[x] unchanged for x = 0, for every    *)
(* user-masked pixel, for every pixel where grDEM[x], grDEM[x-1] or        *)
(* grDEMprev[x] is a missing height and for every pixel with negative      *)
(* cosAng; it changes neither the DEM lines, nor the mask, nor a counter.  *)
C24_RadioFrame ==
  [][RadioCall =>
       /\ \A x \in 0..(ns - 1) :
            RadioSkips(x) => At(buf'.outLine, x) = At(buf.outLine, x)
       /\ buf'.gr = buf.gr /\ buf'.cur = buf.cur
       /\ buf'.grDEMconv = buf.grDEMconv /\ buf'.maskLine = buf.maskLine
       /\ cnt' = cnt /\ d' = d]_vars

C24_Witness ==
  /\ pc = "mask_float" /\ y > 0 /\ cfg.doRadiometric # 0 /\ err = ""
  /\ \E x \in 1..(ns - 1) :
       /\ At(buf.maskLine, x) = MASK_USER_MASK
       /\ ~MissingHeight(At(grDEMline, x)) /\ ~MissingHeight(At(grDEMline, x - 1))
       /\ ~MissingHeight(At(grDEMlast, x))
       /\ ~FacesAway(x) /\ SlopeX(x) # 0
       /\ At(buf.outLine, x).v # 0 /\ At(buf.outLine, x).k = <<>>
  /\ \E x \in 1..(ns - 1) : At(buf.outLine, x).k # <<>>

(* the step of deskew_dem that calls geo_compensate: on the mask line      *)
(* (without a mask argument) or on a band; the one that calls              *)
(* mask_float_line; the user-masked pixels of the current mask line        *)
GeoCallStep == pc = "mask" \/ (pc = "band" /\ pc' = "radio")
MaskFloatStep == pc = "mask_float"
UserPixels == {x \in 0..(ns - 1) : At(buf.maskLine, x) = MASK_USER_MASK}

(* C25 as stated: the layover, shadow and user-mask counters are changed   *)
(* by geo_compensate only.                                                 *)
C25_OnlyGeoCounts == [][cnt' # cnt => GeoCallStep]_vars

(* C25: n_layover and n_shadow are changed only by geo_compensate called   *)
(* with a mask, and only upwards; n_user is changed only by                *)
(* mask_float_line, which adds the number of user-masked pixels of the     *)
(* mask line at every call; the reset sets all three to zero.              *)
C25_CountersByRoutine ==
  [][/\ (cnt'.n_layover # cnt.n_layover \/ cnt'.n_shadow # cnt.n_shadow)
          => /\ pc = "band" /\ pc' = "radio" /\ inSarFlag
             /\ cnt'.n_layover >= cnt.n_layover /\ cnt'.n_shadow >= cnt.n_shadow
     /\ MaskFloatStep => cnt'.n_user = cnt.n_user + Cardinality(UserPixels)
     /\ cnt'.n_user # cnt.n_user => MaskFloatStep
     /\ pc = "alloc_buf" /\ pc' # pc
          => cnt' = [n_layover |-> 0, n_shadow |-> 0, n_user |-> 0]]_vars

C25_Witness ==
  /\ pc = "put" /\ err = ""
  /\ cnt.n_user > 0 /\ cnt.n_layover + cnt.n_shadow > 0
  /\ Cardinality(UserPixels) > 0

(* the calc_ranges calls made so far; deskew_dem is inside the per-line    *)
(* loop                                                                    *)
IsCalcRanges(e) == e[1] = "calc_ranges"
CalcRangesCalls == Len(SelectSeq(log, IsCalcRanges))
InLineLoop == pc \in {"line", "mask", "band", "radio", "mask_float", "put"}

(* C26: once calc_ranges has returned no step writes to the geometry       *)
(* (tables and scalars of struct deskew_dem_data); calc_ranges runs at     *)
(* most once, and exactly once in a run that reaches the per-line loop.    *)
C26_GeometryImmutable ==
  /\ [](CalcRangesCalls <= 1)
  /\ [](InLineLoop \/ written # <<>> => CalcRangesCalls = 1 /\ d = cfg.geom)
  /\ [][CalcRangesCalls = 1 => d' = d /\ CalcRangesCalls' = 1]_vars

C26_Witness ==
  /\ pc = "put" /\ y = 1 /\ b = band_count - 1 /\ err = ""
  /\ inSarFlag /\ inMaskFlag /\ cfg.doRadiometric # 0
  /\ CalcRangesCalls = 1 /\ d = cfg.geom

(* C27: deskew_dem opens no output raster and writes no output metadata    *)
(* before every validation check has passed: not while the mask checks are *)
(* still to come, and not in a run that ends in a fatal error.             *)
C27_NoOutputBeforeValidation ==
  pc = "error" \/ (pc = "check_mask" /\ inMaskFlag) =>
    files["out"].o = 0 /\ "out" \notin metaWritten /\ written = <<>>

(* the statistics report has been printed; the pixels of class c in the    *)
(* mask lines written                                                      *)
Reported == pc \in {"cleanup", "done"} /\ outMaskFlag
PixelsOfClass(c) ==
  Cardinality({p \in (1..Len(maskWritten)) \X (0..(ns - 1)) :
                 At(maskWritten[p[1]].line, p[2]) = c})

(* C28: at the end of a run each reported count (n_layover, n_shadow,      *)
(* n_user) is at most ns*numLines, and n_layover and n_shadow equal the    *)
(* number of layover and of shadow pixels in the mask lines written: a     *)
(* pixel is counted once per line however many bands the image has.        *)
C28_CountsMatchMask ==
  Reported =>
    /\ cnt.n_layover <= ns * cfg.numLines
    /\ cnt.n_shadow <= ns * cfg.numLines
    /\ cnt.n_user <= ns * cfg.numLines
    /\ cnt.n_layover = PixelsOfClass(MASK_LAYOVER)
    /\ cnt.n_shadow = PixelsOfClass(MASK_SHADOW)

(* the indices the iteration geo is about to run uses: the slant-range     *)
(* pixel x of the sweep, the pixel the missing-height branches copy from,  *)
(* the two hits recorded for x, the height and position of the             *)
(* right-to-left pass                                                      *)
PixelIdx(i) == i >= 0 /\ i <= geo.ns - 1
HitIdx(i) == i >= 0 /\ i <= 2 * geo.ns - 1
SweepX == Floor(sweep_srX(geo), geo.d.q)
SweepCopies ==
  /\ sweep_height(geo) = badDEMht /\ geo.valid_data_yet
  /\ sweep_srX(geo) >= 0 /\ sweep_srX(geo) < (geo.ns - 1) * geo.d.q
EdgeGood == At(geo.grDEM, geo.grX) > -900 /\ At(geo.grDEM, geo.grX) # badDEMht
EdgeSrX ==
  dem_gr2sr(geo.d, geo.grX * geo.d.q,
            IF EdgeGood THEN At(geo.grDEM, geo.grX) ELSE geo.last_good_height, geo.g)
EdgeCopies ==
  /\ ~EdgeGood /\ EdgeSrX >= 0 /\ EdgeSrX < geo.min_valid_srX
  /\ At(geo.out, geo.grX) = 0
TableFull ==
  At(geo.sr_hits, SweepX) # -1 /\ At(geo.sr_hits, geo.ns + SweepX) # -1

(* C29: every index geo_compensate uses for in[], out[] and mask[] lies in *)
(* [0, ns-1] and every index of sr_hits in [0, 2*ns-1], in the sweep, the  *)
(* hole-closing pass, the right-to-left pass and the invalid-data marking; *)
(* the arrays keep their lengths and no hit of -1 is used as a mask index. *)
C29_ArrayIndicesInBounds ==
  /\ geo.phase # "none" =>
       /\ Len(geo.in) = geo.ns /\ Len(geo.out) = geo.ns
       /\ geo.hasMask => Len(geo.mask) = geo.ns
       /\ (geo.hasMask /\ geo.phase # "ret") =>
            /\ Len(geo.sr_hits) = 2 * geo.ns
            /\ \A i \in 1..Len(geo.sr_hits) :
                 geo.sr_hits[i] = -1 \/ PixelIdx(geo.sr_hits[i])
  /\ geo.phase = "sweep" =>
       /\ PixelIdx(geo.grX)
       /\ sweep_in_swath(geo) =>
            /\ PixelIdx(SweepX) /\ PixelIdx(SweepX + 1)
            /\ geo.hasMask =>
                 /\ HitIdx(SweepX) /\ HitIdx(geo.ns + SweepX)
                 /\ TableFull => /\ PixelIdx(At(geo.sr_hits, SweepX))
                                 /\ PixelIdx(At(geo.sr_hits, geo.ns + SweepX))
       /\ SweepCopies => PixelIdx(RoundIdx(sweep_srX(geo), geo.d.q))
  /\ geo.phase = "close" =>
       PixelIdx(geo.grX - 1) /\ PixelIdx(geo.grX) /\ PixelIdx(geo.grX + 1)
  /\ geo.phase = "edge" =>
       /\ PixelIdx(geo.grX)
       /\ EdgeCopies => PixelIdx(RoundIdx(EdgeSrX, geo.d.q))
  /\ (geo.phase = "finish" /\ geo.hasMask) =>
       /\ (max_valid_grX(geo) < geo.ns - 1 /\ max_valid_grX(geo) >= 0)
            => PixelIdx(max_valid_grX(geo))
       /\ (min_valid_grX(geo) < geo.ns - 1 /\ min_valid_grX(geo) >= 0)
            => PixelIdx(min_valid_grX(geo))

C29_Witness ==
  /\ geo.phase = "sweep" /\ geo.hasMask /\ sweep_in_swath(geo) /\ TableFull
  /\ At(geo.sr_hits, SweepX) # At(geo.sr_hits, geo.ns + SweepX)
  /\ \E i \in 0..(geo.ns - 1) : At(geo.out, i) # 0

(* a step inside one geo_compensate call with a mask; the pixels the step  *)
(* turns from normal into class c                                          *)
InsideCall == geo.phase \in {"sweep", "close", "edge", "finish"} /\ geo.hasMask
TurnedInto(c) ==
  {i \in 1..geo.ns : geo.mask[i] = MASK_NORMAL /\ geo'.mask[i] = c}

(* C30: inside one geo_compensate call a pixel becomes layover or shadow   *)
(* only from normal (never from user-masked, invalid-data, or the other of *)
(* the two classes), and n_layover and n_shadow grow by exactly the number *)
(* of pixels the step turns from normal into layover and into shadow.      *)
C30_OnlyNormalIsClassified ==
  [][InsideCall =>
       /\ \A i \in 1..geo.ns :
            (geo'.mask[i] \in {MASK_LAYOVER, MASK_SHADOW}
               /\ geo'.mask[i] # geo.mask[i]) => geo.mask[i] = MASK_NORMAL
       /\ geo'.n_layover = geo.n_layover + Cardinality(TurnedInto(MASK_LAYOVER))
       /\ geo'.n_shadow = geo.n_shadow + Cardinality(TurnedInto(MASK_SHADOW))]_vars

C30_Witness ==
  /\ geo.phase = "sweep" /\ geo.hasMask /\ sweep_in_swath(geo) /\ TableFull
  /\ \/ At(geo.mask, At(geo.sr_hits, SweepX)) \in {MASK_USER_MASK, MASK_INVALID_DATA}
     \/ At(geo.mask, At(geo.sr_hits, geo.ns + SweepX))
          \in {MASK_USER_MASK, MASK_INVALID_DATA}
  /\ geo.n_layover + geo.n_shadow > 0

====
